---------------------------- MODULE Spec2Model ----------------------------
(***************************************************************************)
(* A model of parse_paper.py: PaperParser.extract_text_with_structure and  *)
(* the line scan of PaperParser.parse_structure.                           *)
(*                                                                         *)
(* Text is a sequence of one-character strings, so that strip, lower, the  *)
(* substring tests and the regular expressions of the source are computed  *)
(* character by character.  The alphabet is ASCII: letters, digits, the    *)
(* blank, the tab and punctuation.  None and the empty string, which the   *)
(* source only ever tells apart by truth value ("if not x"), are both the  *)
(* empty sequence.                                                         *)
(***************************************************************************)
EXTENDS Integers, Sequences, FiniteSets, TLC

-----------------------------------------------------------------------------
(* Characters                                                              *)

UpperSeq == <<"A", "B", "C", "D", "E", "F", "G", "H", "I", "J", "K", "L", "M",
              "N", "O", "P", "Q", "R", "S", "T", "U", "V", "W", "X", "Y", "Z">>

LowerSeq == <<"a", "b", "c", "d", "e", "f", "g", "h", "i", "j", "k", "l", "m",
              "n", "o", "p", "q", "r", "s", "t", "u", "v", "w", "x", "y", "z">>

UpperSet == {UpperSeq[k] : k \in 1..26}

LowerSet == {LowerSeq[k] : k \in 1..26}

LetterSet == UpperSet \cup LowerSet

DigitSet == {"0", "1", "2", "3", "4", "5", "6", "7", "8", "9"}

\* what str.strip() removes and the regular expressions' \s matches
Whitespace == {" ", "\t"}

\* the regular expressions' \w
WordSet == LetterSet \cup DigitSet \cup {"_"}

None == << >>

Min(a, b) == IF a < b THEN a ELSE b

-----------------------------------------------------------------------------
(* Python's string methods.  An argument that is used more than once is    *)
(* first bound to its value, by a quantifier over the set that holds only  *)
(* it, so that it is computed once.                                        *)

LowerMap == [c \in UpperSet |-> LowerSeq[CHOOSE k \in 1..26 : UpperSeq[k] = c]]

LowerCh(c) == IF c \in UpperSet THEN LowerMap[c] ELSE c

\* str.lower()
lower(s) == [k \in 1..Len(s) |-> LowerCh(s[k])]

\* the number of consecutive characters of s, from position from on, in set
RECURSIVE RunLen(_, _, _)
RunLen(s, from, set) ==
    IF from > Len(s) \/ s[from] \notin set THEN 0 ELSE 1 + RunLen(s, from + 1, set)

\* the number of consecutive characters of s, from position to backwards, in set
RECURSIVE RunBack(_, _, _)
RunBack(s, to, set) ==
    IF to < 1 \/ s[to] \notin set THEN 0 ELSE 1 + RunBack(s, to - 1, set)

\* str.strip()
strip(s) ==
    CHOOSE r \in
      { IF RunLen(t, 1, Whitespace) = Len(t) THEN << >>
        ELSE SubSeq(t, RunLen(t, 1, Whitespace) + 1,
                       Len(t) - RunBack(t, Len(t), Whitespace))
        : t \in {s} } : TRUE

\* sub in s
Contains(sub, s) ==
    \E t \in {s} : \E k \in 0..(Len(t) - Len(sub)) :
        t[k + 1] = sub[1] /\ SubSeq(t, k + 1, k + Len(sub)) = sub

\* s.startswith(p)
StartsWith(s, p) == Len(p) <= Len(s) /\ SubSeq(s, 1, Len(p)) = p

\* s.replace(c, '') for a single character c
Remove(s, c) == SelectSeq(s, LAMBDA x : x # c)

\* str.isalpha(): non-empty and letters only
isalpha(s) == Len(s) > 0 /\ \A k \in 1..Len(s) : s[k] \in LetterSet

\* str.isupper(): at least one cased character and no lowercase one
isupper(s) ==
    /\ \E k \in 1..Len(s) : s[k] \in UpperSet
    /\ \A k \in 1..Len(s) : s[k] \notin LowerSet

\* str.istitle(): at least one cased character, an uppercase letter only after
\* an uncased character (or at the start), a lowercase letter only after a
\* cased one
istitle(s) ==
    /\ \E k \in 1..Len(s) : s[k] \in LetterSet
    /\ \A k \in 1..Len(s) :
          LET prevCased == k > 1 /\ s[k - 1] \in LetterSet
          IN  /\ s[k] \in UpperSet => ~prevCased
              /\ s[k] \in LowerSet => prevCased

\* sep.join(parts)
RECURSIVE Join(_, _)
Join(parts, sep) ==
    IF parts = << >> THEN << >>
    ELSE IF Len(parts) = 1 THEN parts[1]
    ELSE parts[1] \o sep \o Join(Tail(parts), sep)

-----------------------------------------------------------------------------
(* The regular expressions of parse_structure                              *)

\* ([A-Z][A-Za-z\s&-]+)$ matched from position from
HeaderBody(s, from) ==
    /\ from + 1 <= Len(s)
    /\ s[from] \in UpperSet
    /\ \A k \in (from + 1)..Len(s) :
          s[k] \in LetterSet \cup Whitespace \cup {"&", "-"}

\* re.match(r'^(\d+\.?\s+)?([A-Z][A-Za-z\s&-]+)$', s)
SectionShape(s) ==
    \/ HeaderBody(s, 1)
    \/ LET d == RunLen(s, 1, DigitSet)
           p == 1 + d + (IF d + 1 <= Len(s) /\ s[d + 1] = "." THEN 1 ELSE 0)
           w == RunLen(s, p, Whitespace)
       IN  d >= 1 /\ w >= 1 /\ HeaderBody(s, p + w)

\* re.match(r'^\d+\s+[A-Z]', s)
NumberedStart(s) ==
    LET d == RunLen(s, 1, DigitSet)
        w == RunLen(s, 1 + d, Whitespace)
    IN  d >= 1 /\ w >= 1 /\ 1 + d + w <= Len(s) /\ s[1 + d + w] \in UpperSet

\* re.match(r'^(\d+\.\d+\.?\d*\.?\s+)(.+)$', s)
SubsectionShape(s) ==
    LET d1 == RunLen(s, 1, DigitSet)
        d2 == RunLen(s, d1 + 2, DigitSet)
        q  == d1 + 2 + d2
        q2 == q + (IF q <= Len(s) /\ s[q] = "." THEN 1 ELSE 0)
        q3 == q2 + RunLen(s, q2, DigitSet)
        p  == q3 + (IF q3 <= Len(s) /\ s[q3] = "." THEN 1 ELSE 0)
    IN  /\ d1 >= 1
        /\ d1 + 1 <= Len(s) /\ s[d1 + 1] = "."
        /\ d2 >= 1
        /\ p + 1 <= Len(s) /\ s[p] \in Whitespace

\* re.match(r'^[\u2022\-\*]\s+', s); the bullet sign U+2022 is outside the alphabet
BulletShape(s) == Len(s) >= 2 /\ s[1] \in {"-", "*"} /\ s[2] \in Whitespace

\* the start of the match of re.search(r'\((\d+)\)\s*$', s), 0 when there is none
EqNumStart(s) ==
    LET n == Len(s) - RunBack(s, Len(s), Whitespace)
        d == RunBack(s, n - 1, DigitSet)
    IN  IF n >= 3 /\ s[n] = ")" /\ d >= 1 /\ n - 1 - d >= 1 /\ s[n - 1 - d] = "("
        THEN n - 1 - d ELSE 0

\* re.split(r'[,]|  +', s): cut at each comma and at each run of two or more blanks
RECURSIVE SplitFrom(_, _, _, _)
SplitFrom(s, k, cur, acc) ==
    IF k > Len(s) THEN Append(acc, cur)
    ELSE IF s[k] = "," THEN SplitFrom(s, k + 1, << >>, Append(acc, cur))
    ELSE IF s[k] = " " /\ k + 1 <= Len(s) /\ s[k + 1] = " "
         THEN SplitFrom(s, k + RunLen(s, k, {" "}), << >>, Append(acc, cur))
    ELSE SplitFrom(s, k + 1, Append(cur, s[k]), acc)

AuthorSplit(s) == SplitFrom(s, 1, << >>, << >>)

-----------------------------------------------------------------------------
(* Keyword lists                                                           *)

\* line 157
TitleStopWords ==
    { <<"u", "n", "i", "v", "e", "r", "s", "i", "t", "y">>,
      <<"g", "o", "o", "g", "l", "e">>,
      <<"r", "e", "s", "e", "a", "r", "c", "h">>,
      <<"b", "r", "a", "i", "n">>,
      <<"d", "e", "p", "a", "r", "t", "m", "e", "n", "t">> }

\* lines 170-171
InstitutionWords ==
    { <<"@">>,
      <<"u", "n", "i", "v", "e", "r", "s", "i", "t", "y">>,
      <<"i", "n", "s", "t", "i", "t", "u", "t", "e">>,
      <<"g", "o", "o", "g", "l", "e">>,
      <<"d", "e", "e", "p", "m", "i", "n", "d">>,
      <<"r", "e", "s", "e", "a", "r", "c", "h">>,
      <<"b", "r", "a", "i", "n">>,
      <<"d", "e", "p", "a", "r", "t", "m", "e", "n", "t">>,
      <<"c", "o", "l", "l", "e", "g", "e">>,
      <<".", "c", "o", "m">>,
      <<".", "e", "d", "u">> }

\* lines 175-176
ContentWords ==
    { <<"a", "b", "s", "t", "r", "a", "c", "t">>,
      <<"i", "n", "t", "r", "o", "d", "u", "c", "t", "i", "o", "n">>,
      <<"r", "e", "c", "u", "r", "r", "e", "n", "t">>,
      <<"n", "e", "u", "r", "a", "l", " ", "n", "e", "t", "w", "o", "r", "k">>,
      <<"t", "h", "e", " ">>,
      <<"b", "a", "s", "e", "d", " ", "o", "n">>,
      <<"w", "e", " ", "p", "r", "o", "p", "o", "s", "e">> }

\* line 221
AbstractStopPrefixes ==
    { <<"i", "n", "t", "r", "o", "d", "u", "c", "t", "i", "o", "n">>,
      <<"1", " ">>,
      <<"2", " ">> }

\* line 69
MathFunctions ==
    { <<"s", "i", "n">>, <<"c", "o", "s">>, <<"t", "a", "n">>, <<"l", "o", "g">>,
      <<"e", "x", "p">>, <<"m", "a", "x">>, <<"m", "i", "n">>,
      <<"s", "o", "f", "t", "m", "a", "x">> }

\* lines 62-73: the one-character indicators; the summation, integral, product
\* and root signs and the sub- and superscript digits are outside the alphabet
MathChars == {"=", "+", "^", "_"}

AbstractWord == <<"a", "b", "s", "t", "r", "a", "c", "t">>

TableWord == <<"T", "a", "b", "l", "e">>

ReferenceWord == <<"r", "e", "f", "e", "r", "e", "n", "c", "e">>

-----------------------------------------------------------------------------
(* Program constants of parse_structure and detect_table                   *)

TitleWindow == 15

TitleMinLen == 15

AuthorWindow == 40

AuthorMinLen == 5

AuthorMaxLen == 150

AuthorTokenMinLen == 3

VenueMaxLen == 200

AbstractCap == 500

TableSkip == 10

TableLookahead == 2

SectionMaxLen == 80

TitleCaseSectionMaxLen == 50

-----------------------------------------------------------------------------
(* detect_equation, clean_equation, detect_table, format_paragraph         *)

\* re.search(r'\b(sin|cos|tan|log|exp|max|min|softmax)\b', line)
HasMathFunction(line) ==
    \E w \in MathFunctions : \E k \in 1..(Len(line) - Len(w) + 1) :
        /\ line[k] = w[1]
        /\ SubSeq(line, k, k + Len(w) - 1) = w
        /\ (k = 1 \/ line[k - 1] \notin WordSet)
        /\ (k + Len(w) > Len(line) \/ line[k + Len(w)] \notin WordSet)

\* any(re.search(pattern, line) for pattern in math_indicators)
HasMath(line) ==
    \/ \E k \in 1..Len(line) : line[k] \in MathChars
    \/ \E k \in 1..(Len(line) - 1) : line[k] \in UpperSet /\ line[k + 1] = "("
    \/ HasMathFunction(line)

detect_equation(line0) ==
    \E line \in {line0} :
        LET letters == Cardinality({k \in 1..Len(line) : line[k] \in LetterSet})
            total   == Cardinality({k \in 1..Len(line) : line[k] # " "})
        IN  \/ total > 0 /\ HasMath(line) /\ 2 * letters < total
            \/ \E t \in {strip(line)} : EqNumStart(t) > 0

\* clean_equation without the strip of what stands before the number
clean_equation_unstripped(line0) ==
    CHOOSE r \in
      { LET start  == EqNumStart(line)
            eq_num == IF start > 0
                      THEN SubSeq(line, start + 1,
                                  start + RunLen(line, start + 1, DigitSet))
                      ELSE None
            body   == IF start > 0 THEN SubSeq(line, 1, start - 1) ELSE line
            result == <<"$", "$", "\n">> \o body \o <<"\n", "$", "$">>
        IN  IF eq_num # None
            THEN result \o <<" ", "(", "E", "q", ".", " ">> \o eq_num \o <<")">>
            ELSE result
        : line \in {strip(line0)} } : TRUE

clean_equation(line0) ==
    CHOOSE r \in
      { LET start  == EqNumStart(line)
            eq_num == IF start > 0
                      THEN SubSeq(line, start + 1,
                                  start + RunLen(line, start + 1, DigitSet))
                      ELSE None
            body   == IF start > 0 THEN strip(SubSeq(line, 1, start - 1)) ELSE line
            result == <<"$", "$", "\n">> \o body \o <<"\n", "$", "$">>
        IN  IF eq_num # None
            THEN result \o <<" ", "(", "E", "q", ".", " ">> \o eq_num \o <<")">>
            ELSE result
        : line \in {strip(line0)} } : TRUE

\* detect_table with a skip count one too small
detect_table_short(raw, start_idx, len) ==
    IF start_idx + TableLookahead >= len THEN <<FALSE, 0>>
    ELSE IF Contains(TableWord, raw) /\ Contains(<<":">>, raw)
         THEN <<TRUE, Min(TableSkip - 1, len - start_idx)>>
    ELSE <<FALSE, 0>>

\* detect_table without the test that two lines follow
detect_table_anywhere(raw, start_idx, len) ==
    IF Contains(TableWord, raw) /\ Contains(<<":">>, raw)
    THEN <<TRUE, Min(TableSkip, len - start_idx)>>
    ELSE <<FALSE, 0>>

\* detect_table(lines, start_idx), of lines[start_idx] = raw and len(lines) = len:
\* the pair (is_table, table_lines)
detect_table(raw, start_idx, len) ==
    IF start_idx + TableLookahead >= len THEN <<FALSE, 0>>
    ELSE IF Contains(TableWord, raw) /\ Contains(<<":">>, raw)
         THEN <<TRUE, Min(TableSkip, len - start_idx)>>
    ELSE <<FALSE, 0>>

(***************************************************************************)
(* A fragment is one string of the result list.  Beside its text it        *)
(* carries, for the properties only, the category of the step that emitted *)
(* it and the indices lo..hi of the lines its text comes from.  An entry   *)
(* of the paragraph buffer carries its text and the index of its line.     *)
(***************************************************************************)
Fragment(cat, idx, text) == [cat |-> cat, lo |-> idx, hi |-> idx, text |-> text]

\* ' '.join(current) of format_paragraph, as a fragment with its '\n'
Paragraph(current) ==
    [cat  |-> "paragraph",
     lo   |-> current[1].src,
     hi   |-> current[Len(current)].src,
     text |-> Join([k \in 1..Len(current) |-> current[k].text], <<" ">>) \o <<"\n">>]

\* the loop of format_paragraph from lines[k] on; st = <<current, paragraph>>
RECURSIVE FormatFrom(_, _, _)
FormatFrom(lines, k, st) ==
    IF k > Len(lines)
    THEN IF st[1] # << >> THEN Append(st[2], Paragraph(st[1])) ELSE st[2]
    ELSE CHOOSE r \in
           { FormatFrom(lines, k + 1, next) : next \in
               { IF strip(lines[k].text) = << >>
                 THEN << << >>,
                         Append(IF st[1] # << >> THEN Append(st[2], Paragraph(st[1]))
                                ELSE st[2],
                                [cat |-> "paragraph", lo |-> lines[k].src,
                                 hi |-> lines[k].src, text |-> <<"\n">>]) >>
                 ELSE << Append(st[1], [src |-> lines[k].src,
                                        text |-> strip(lines[k].text)]),
                         st[2] >> } } : TRUE

format_paragraph(lines) ==
    IF lines = << >> THEN << >> ELSE FormatFrom(lines, 1, << << >>, << >> >>)

-----------------------------------------------------------------------------
(* The tests parse_structure makes on a line                               *)

\* lines 152-157
TitleLike(ls) ==
    /\ Len(ls) > TitleMinLen
    /\ (istitle(ls) \/ (ls[1] \in UpperSet /\ ~isupper(ls)))
    /\ ~Contains(<<"@">>, ls)
    /\ \A low \in {lower(ls)} : ~\E w \in TitleStopWords : Contains(w, low)

\* lines 169-171
is_institution(ls) ==
    \E low \in {lower(ls)} : \E w \in InstitutionWords : Contains(w, low)

\* lines 174-176
is_content(ls) ==
    \E low \in {lower(ls)} : \E w \in ContentWords : Contains(w, low)

\* x.replace(' ', '').replace('.', '').replace('-', '').isalpha()
NameLike(x) == \E t \in {Remove(Remove(Remove(x, " "), "."), "-")} : isalpha(t)

\* AuthorNames without the strip of each name
AuthorNamesUnstripped(ls) ==
    IF Contains(<<",">>, ls) \/ Contains(<<" ", " ">>, ls)
    THEN SelectSeq(AuthorSplit(ls),
                   LAMBDA author : /\ author # << >>
                                   /\ Len(author) > AuthorTokenMinLen
                                   /\ NameLike(author))
    ELSE IF NameLike(ls) THEN <<ls>> ELSE << >>

\* lines 183-198: the names an author line offers, in order
AuthorNames(ls) ==
    IF Contains(<<",">>, ls) \/ Contains(<<" ", " ">>, ls)
    THEN \* lines 185-190
         CHOOSE r \in
           { SelectSeq([k \in 1..Len(author_list) |-> strip(author_list[k])],
                       LAMBDA author : /\ author # << >>
                                       /\ Len(author) > AuthorTokenMinLen
                                       /\ NameLike(author))
             : author_list \in {AuthorSplit(ls)} } : TRUE
    ELSE \* line 196
         IF NameLike(ls) THEN <<ls>> ELSE << >>

\* line 221
AbstractStop(ls) ==
    \E low \in {lower(ls)} : \E p \in AbstractStopPrefixes : StartsWith(low, p)

\* lines 251-256
MajorSection(ls) ==
    /\ SectionShape(ls) /\ Len(ls) < SectionMaxLen
    /\ \/ isupper(ls)
       \/ NumberedStart(ls)
       \/ Len(ls) < TitleCaseSectionMaxLen /\ istitle(ls)

\* what the loop body reads of a line; ls is line.strip()
FactsOf(raw, ls) ==
    [raw            |-> raw,
     ls             |-> ls,
     title_like     |-> TitleLike(ls),
     is_institution |-> is_institution(ls),
     is_content     |-> is_content(ls),
     has_at         |-> Contains(<<"@">>, ls),
     author_names   |-> IF AuthorMinLen < Len(ls) /\ Len(ls) < AuthorMaxLen
                        THEN AuthorNames(ls) ELSE << >>,
     is_abstract    |-> lower(ls) = AbstractWord,
     abstract_stop  |-> AbstractStop(ls),
     section_shape  |-> SectionShape(ls),
     is_equation    |-> detect_equation(ls),
     equation       |-> IF detect_equation(ls) THEN clean_equation(ls) ELSE << >>,
     major_section  |-> MajorSection(ls),
     has_reference  |-> \E low \in {lower(ls)} : Contains(ReferenceWord, low),
     subsection     |-> SubsectionShape(ls),
     bullet         |-> BulletShape(ls)]

-----------------------------------------------------------------------------
(* One iteration of the loop of parse_structure, step by step.  s is the   *)
(* record of the loop's variables; s.done says that a "continue" was       *)
(* taken, s.cat names the step that took it; f holds the facts of the      *)
(* line and idx is its index.                                              *)

\* if current_section: result.extend(self.format_paragraph(current_section));
\*                     current_section = []
Flush(s) ==
    IF s.current_section # << >>
    THEN [s EXCEPT !.result = @ \o format_paragraph(s.current_section),
                   !.current_section = << >>]
    ELSE s

\* continue
Consume(s, cat) == [s EXCEPT !.done = TRUE, !.cat = cat]

\* Emit with the fragment appended before the paragraph buffer is flushed
EmitThenFlush(s, cat, idx, text) ==
    Consume(Flush([s EXCEPT !.result = Append(@, Fragment(cat, idx, text))]), cat)

\* the flush, result.append(text) and continue of a step that emits a fragment
Emit(s, cat, idx, text) ==
    Consume([Flush(s) EXCEPT !.result = Append(@, Fragment(cat, idx, text))], cat)

\* StepSkip without its "continue"
StepSkipNoContinue(s) ==
    IF s.done THEN s
    ELSE IF s.skip_lines > 0 THEN [s EXCEPT !.skip_lines = @ - 1]
    ELSE s

\* lines 137-139
StepSkip(s) ==
    IF s.done THEN s
    ELSE IF s.skip_lines > 0
         THEN Consume([s EXCEPT !.skip_lines = @ - 1], "skipped")
    ELSE s

\* lines 144-147
StepBlank(s, f, idx) ==
    IF s.done THEN s
    ELSE IF f.ls = << >>
         THEN Consume(IF s.current_section # << >>
                      THEN [s EXCEPT !.current_section =
                                        Append(@, [src |-> idx, text |-> << >>])]
                      ELSE s,
                      "blank")
    ELSE s

\* StepTitle that stores the line as the title whatever the container gave
StepTitleOverwrite(s, f, idx) ==
    IF s.done THEN s
    ELSE IF ~s.title_found /\ idx < TitleWindow /\ f.title_like
         THEN Consume([s EXCEPT !.meta.title = f.ls, !.title_found = TRUE], "title")
    ELSE s

\* lines 150-163
StepTitle(s, f, idx) ==
    IF s.done THEN s
    ELSE IF ~s.title_found /\ idx < TitleWindow /\ f.title_like
         THEN Consume([s EXCEPT !.meta.title = IF @ = None THEN f.ls ELSE @,
                                !.title_found = TRUE],
                      "title")
    ELSE s

\* AddAuthor without the test for a duplicate
AddAuthorAlways(authors, author) == Append(authors, author)

\* if author not in self.metadata['authors']: self.metadata['authors'].append(author)
AddAuthor(authors, author) ==
    IF \E k \in 1..Len(authors) : authors[k] = author THEN authors
    ELSE Append(authors, author)

\* the loop of lines 187-193 over the names of the line, from names[k] on
RECURSIVE AddAuthors(_, _, _)
AddAuthors(authors, names, k) ==
    IF k > Len(names) THEN authors
    ELSE CHOOSE r \in { AddAuthors(a, names, k + 1)
                        : a \in {AddAuthor(authors, names[k])} } : TRUE

\* StepAuthor with the author window one line too long
StepAuthorLate(s, f, idx) ==
    IF s.done THEN s
    ELSE IF idx <= AuthorWindow /\ s.metadata_section
         THEN IF /\ s.title_found /\ ~f.is_institution /\ ~f.is_content
                 /\ AuthorMinLen < Len(f.ls) /\ Len(f.ls) < AuthorMaxLen
              THEN Consume([s EXCEPT !.meta.authors = AddAuthors(@, f.author_names, 1)],
                           "author")
              ELSE IF f.is_institution /\ ~f.is_content
                   THEN IF Len(f.ls) < VenueMaxLen
                        THEN Consume(IF s.meta.venue = None /\ ~f.has_at
                                     THEN [s EXCEPT !.meta.venue = f.ls] ELSE s,
                                     "affiliation")
                        ELSE IF s.meta.venue = None /\ ~f.has_at
                             THEN [s EXCEPT !.meta.venue = f.ls] ELSE s
              ELSE s
    ELSE s

\* lines 166-208
StepAuthor(s, f, idx) ==
    IF s.done THEN s
    ELSE IF idx < AuthorWindow /\ s.metadata_section
         THEN IF /\ s.title_found /\ ~f.is_institution /\ ~f.is_content
                 /\ AuthorMinLen < Len(f.ls) /\ Len(f.ls) < AuthorMaxLen
              THEN Consume([s EXCEPT !.meta.authors = AddAuthors(@, f.author_names, 1)],
                           "author")
              ELSE IF f.is_institution /\ ~f.is_content
                   THEN IF Len(f.ls) < VenueMaxLen
                        THEN Consume(IF s.meta.venue = None /\ ~f.has_at
                                     THEN [s EXCEPT !.meta.venue = f.ls] ELSE s,
                                     "affiliation")
                        ELSE IF s.meta.venue = None /\ ~f.has_at
                             THEN [s EXCEPT !.meta.venue = f.ls] ELSE s
              ELSE s
    ELSE s

\* StepAbstractHeader toggling metadata_section instead of clearing it
StepAbstractHeaderToggle(s, f, idx) ==
    IF s.done THEN s
    ELSE IF f.is_abstract
         THEN [Emit([s EXCEPT !.metadata_section = ~@], "abstract", idx,
                    <<"\n", "#", "#", " ", "A", "b", "s", "t", "r", "a", "c", "t",
                      "\n", "\n">>)
               EXCEPT !.in_abstract = TRUE]
    ELSE s

\* lines 211-218
StepAbstractHeader(s, f, idx) ==
    IF s.done THEN s
    ELSE IF f.is_abstract
         THEN [Emit([s EXCEPT !.metadata_section = FALSE], "abstract", idx,
                    <<"\n", "#", "#", " ", "A", "b", "s", "t", "r", "a", "c", "t",
                      "\n", "\n">>)
               EXCEPT !.in_abstract = TRUE]
    ELSE s

\* StepAbstractBody without the test of the length against the cap
StepAbstractBodyNoCap(s, f) ==
    IF s.done THEN s
    ELSE IF s.in_abstract /\ ~f.abstract_stop
         THEN IF ~f.section_shape
              THEN IF s.meta.abstract = None
                   THEN [s EXCEPT !.meta.abstract = f.ls]
                   ELSE [s EXCEPT !.meta.abstract = @ \o <<" ">> \o f.ls]
              ELSE [s EXCEPT !.in_abstract = FALSE]
    ELSE s

\* lines 221-230: never consumes the line
StepAbstractBody(s, f) ==
    IF s.done THEN s
    ELSE IF s.in_abstract /\ ~f.abstract_stop
         THEN IF ~f.section_shape
              THEN IF s.meta.abstract = None
                   THEN [s EXCEPT !.meta.abstract = f.ls]
                   ELSE IF Len(s.meta.abstract) < AbstractCap /\ f.ls # << >>
                        THEN [s EXCEPT !.meta.abstract = @ \o <<" ">> \o f.ls]
                   ELSE s
              ELSE [s EXCEPT !.in_abstract = FALSE]
    ELSE s

\* lines 233-240
StepTable(s, f, idx, len) ==
    IF s.done THEN s
    ELSE IF detect_table(f.raw, idx, len)[1]
         THEN [Emit(s, "table", idx,
                    <<"\n", "*", "*">> \o f.ls \o <<"*", "*", "\n", "\n">>)
               EXCEPT !.skip_lines = detect_table(f.raw, idx, len)[2]]
    ELSE s

\* lines 243-248
StepEquation(s, f, idx) ==
    IF s.done THEN s
    ELSE IF f.is_equation
         THEN Emit(s, "equation", idx, <<"\n">> \o f.equation \o <<"\n", "\n">>)
    ELSE s

\* lines 251-268
StepSection(s, f, idx) ==
    IF s.done THEN s
    ELSE IF f.major_section
         THEN [Emit(s, "section", idx,
                    <<"\n", "#", "#", " ">> \o f.ls \o <<"\n", "\n">>)
               EXCEPT !.in_references = @ \/ f.has_reference]
    ELSE s

\* lines 271-277
StepSubsection(s, f, idx) ==
    IF s.done THEN s
    ELSE IF f.subsection
         THEN Emit(s, "subsection", idx,
                   <<"\n", "#", "#", "#", " ">> \o f.ls \o <<"\n", "\n">>)
    ELSE s

\* StepBullet without its "continue"
StepBulletNoContinue(s, f, idx) ==
    IF s.done THEN s
    ELSE IF f.bullet
         THEN [Emit(s, "bullet", idx, f.ls \o <<"\n">>) EXCEPT !.done = FALSE]
    ELSE s

\* lines 280-285
StepBullet(s, f, idx) ==
    IF s.done THEN s
    ELSE IF f.bullet THEN Emit(s, "bullet", idx, f.ls \o <<"\n">>)
    ELSE s

\* line 288
StepFallback(s, f, idx) ==
    IF s.done THEN s
    ELSE Consume([s EXCEPT !.current_section = Append(@, [src |-> idx, text |-> f.ls])],
                 "fallback")

\* the body of "for i, line in enumerate(lines)", lines 137-288: the steps in
\* the order of the source, each applied to the value the one before it left
Iteration(s0, f, idx, len) ==
    CHOOSE r \in
      { StepFallback(s11, f, idx) : s11 \in
      { StepBullet(s10, f, idx) : s10 \in
      { StepSubsection(s9, f, idx) : s9 \in
      { StepSection(s8, f, idx) : s8 \in
      { StepEquation(s7, f, idx) : s7 \in
      { StepTable(s6, f, idx, len) : s6 \in
      { StepAbstractBody(s5, f) : s5 \in
      { StepAbstractHeader(s4, f, idx) : s4 \in
      { StepAuthor(s3, f, idx) : s3 \in
      { StepTitle(s2, f, idx) : s2 \in
      { StepBlank(s1, f, idx) : s1 \in
      { StepSkip(s) : s \in {[s0 EXCEPT !.done = FALSE, !.cat = "none"]}
      } } } } } } } } } } } } : TRUE

-----------------------------------------------------------------------------
(* generate_bibtex and sanitize_filename                                   *)

\* authors[:8]
MaxBibAuthors == 8

\* len(abstract_clean) > 500
BibAbstractMax == 500

\* abstract_clean[:497]
BibAbstractKeep == 497

\* len(filename) > 100, filename[:100]
FilenameMax == 100

Unknown == <<"U", "n", "k", "n", "o", "w", "n">>

\* the number of consecutive characters of s, from position to backwards, that
\* are not whitespace
RECURSIVE WordBack(_, _)
WordBack(s, to) ==
    IF to < 1 \/ s[to] \in Whitespace THEN 0 ELSE 1 + WordBack(s, to - 1)

\* s.split(), as the pair <<number of words is positive, the last word>>:
\* s.split()[-1] raises IndexError when s holds whitespace only
LastWord(s) ==
    CHOOSE r \in
      { IF t = << >> THEN <<FALSE, << >> >>
        ELSE <<TRUE, SubSeq(t, Len(t) - WordBack(t, Len(t)) + 1, Len(t))>>
        : t \in {strip(s)} } : TRUE

\* f"  {name} = {{{value}}},\n"
BibField(name, value) == <<" ", " ">> \o name \o <<" ", "=", " ", "{">> \o value
                            \o <<"}", ",", "\n">>

\* BibAbstract with the length of the abstract before its braces are removed
BibAbstractRawLength(abstract) ==
    CHOOSE r \in
      { IF Len(abstract) > BibAbstractMax
        THEN SubSeq(abstract_clean, 1, BibAbstractKeep) \o <<".", ".", ".">>
        ELSE abstract_clean
        : abstract_clean \in {Remove(Remove(abstract, "{"), "}")} } : TRUE

\* lines 352-358: the abstract field's value
BibAbstract(abstract) ==
    CHOOSE r \in
      { IF Len(abstract_clean) > BibAbstractMax
        THEN SubSeq(abstract_clean, 1, BibAbstractKeep) \o <<".", ".", ".">>
        ELSE abstract_clean
        : abstract_clean \in {Remove(Remove(abstract, "{"), "}")} } : TRUE

\* lines 333-358: the fields, in the order they are written, as <<name, value>>
BibFields(m, entry_type) ==
    (IF m.title # None THEN << <<<<"t", "i", "t", "l", "e">>, m.title>> >> ELSE << >>)
    \o (IF m.authors # << >>
        THEN << <<<<"a", "u", "t", "h", "o", "r">>,
                  Join(SubSeq(m.authors, 1, Min(MaxBibAuthors, Len(m.authors))),
                       <<" ", "a", "n", "d", " ">>)>> >>
        ELSE << >>)
    \o (IF m.year # None THEN << <<<<"y", "e", "a", "r">>, m.year>> >> ELSE << >>)
    \o (IF m.venue # None
        THEN IF entry_type = "inproceedings"
             THEN << <<<<"b", "o", "o", "k", "t", "i", "t", "l", "e">>, m.venue>> >>
             ELSE << <<<<"j", "o", "u", "r", "n", "a", "l">>, m.venue>> >>
        ELSE << >>)
    \o (IF m.abstract # None
        THEN << <<<<"a", "b", "s", "t", "r", "a", "c", "t">>, BibAbstract(m.abstract)>> >>
        ELSE << >>)

\* CiteKey with the year of the clock whatever the metadata's year
CiteKeyClockYear(m, clock) ==
    CHOOSE r \in
      { IF first_author # << >>
        THEN CHOOSE q \in
               { <<w[1], Remove(w[2] \o clock, " ")>>
                 : w \in {LastWord(first_author)} } : TRUE
        ELSE <<TRUE, Remove(Unknown \o clock, " ")>>
        : first_author \in {IF m.authors # << >> THEN m.authors[1] ELSE Unknown} } : TRUE

\* CiteKey with the whole name of the first author in place of its last word
CiteKeyWholeName(m, clock) ==
    CHOOSE r \in
      { <<TRUE, Remove(first_author \o (IF m.year # None THEN m.year ELSE clock), " ")>>
        : first_author \in {IF m.authors # << >> THEN m.authors[1] ELSE Unknown} } : TRUE

\* lines 322-327: the cite key of generate_bibtex(cite_key=None), as the pair
\* <<no exception, key>>; clock is str(datetime.now().year)
CiteKey(m, clock) ==
    CHOOSE r \in
      { IF first_author # << >>
        THEN CHOOSE q \in
               { <<w[1], Remove(w[2] \o (IF m.year # None THEN m.year ELSE clock), " ")>>
                 : w \in {LastWord(first_author)} } : TRUE
        ELSE <<TRUE, Remove(Unknown \o (IF m.year # None THEN m.year ELSE clock), " ")>>
        : first_author \in {IF m.authors # << >> THEN m.authors[1] ELSE Unknown} } : TRUE

\* generate_bibtex(): raised says that an exception left it, and then the other
\* fields are empty
generate_bibtex(m, clock) ==
    CHOOSE r \in
      { IF ~key[1]
        THEN [raised |-> TRUE, entry_type |-> "none", cite_key |-> << >>,
              fields |-> << >>]
        ELSE CHOOSE q \in
               { [raised |-> FALSE, entry_type |-> entry_type, cite_key |-> key[2],
                  fields |-> BibFields(m, entry_type)]
                 : entry_type \in {IF m.venue # None THEN "inproceedings"
                                   ELSE "article"} } : TRUE
        : key \in {CiteKey(m, clock)} } : TRUE

\* lines 331-360: the text of an entry
RECURSIVE BibFieldsText(_)
BibFieldsText(fields) ==
    IF fields = << >> THEN << >>
    ELSE BibField(fields[1][1], fields[1][2]) \o BibFieldsText(Tail(fields))

BibText(entry) ==
    <<"@">> \o (IF entry.entry_type = "article"
                THEN <<"a", "r", "t", "i", "c", "l", "e">>
                ELSE <<"i", "n", "p", "r", "o", "c", "e", "e", "d", "i", "n", "g", "s">>)
    \o <<"{">> \o entry.cite_key \o <<",", "\n">>
    \o BibFieldsText(entry.fields) \o <<"}", "\n">>

\* re.sub(r'[<>:"/\\|?*]', '', filename)
InvalidChars == {"<", ">", ":", "\"", "/", "\\", "|", "?", "*"}

\* re.sub(r'[\s]+', '_', filename): the first character of a run of whitespace
\* becomes "_" and the others go
Underscore(s) ==
    SelectSeq([k \in 1..Len(s) |->
                  IF s[k] \in Whitespace
                  THEN IF k > 1 /\ s[k - 1] \in Whitespace THEN "gone" ELSE "_"
                  ELSE s[k]],
              LAMBDA c : c # "gone")

\* sanitize_filename with the whitespace replaced before the characters go
sanitize_filename_underscore_first(filename) ==
    CHOOSE r \in
      { IF Len(f2) > FilenameMax THEN SubSeq(f2, 1, FilenameMax) ELSE f2
        : f2 \in { SelectSeq(f1, LAMBDA c : c \notin InvalidChars)
                   : f1 \in {Underscore(filename)} } }
      : TRUE

sanitize_filename(filename) ==
    CHOOSE r \in
      { IF Len(f2) > FilenameMax THEN SubSeq(f2, 1, FilenameMax) ELSE f2
        : f2 \in { Underscore(f1)
                   : f1 \in {SelectSeq(filename, LAMBDA c : c \notin InvalidChars)} } }
      : TRUE

-----------------------------------------------------------------------------
(* The inputs: the container's metadata and the lines of the document      *)

\* the number of lines of a document whose content is free
MaxContent == 3

\* the lengths of the two long lines of the vocabulary
LongLen == 498

OverLen == 501

Rep(c, len) == [k \in 1..len |-> c]

ShortLines ==
    { <<"A", "t", "t", "e", "n", "t", "i", "o", "n", " ", "I", "s", " ", "A", "l", "l",
        " ", "Y", "o", "u", " ", "N", "e", "e", "d">>,
      <<"A", "l", "i", "c", "e", " ", "S", "m", "i", "t", "h", ",", " ", "B", "o", "b",
        " ", "J", "o", "n", "e", "s">>,
      <<" ", "A", "B", "S", "T", "R", "A", "C", "T">>,
      <<"G", "o", "o", "g", "l", "e", " ", "B", "r", "a", "i", "n">>,
      <<"T", "a", "b", "l", "e", " ", "1", ":", " ", "R", "e", "s", "u", "l", "t", "s">>,
      <<"E", " ", "=", " ", "m", "c", "^", "2", " ", "(", "1", ")">>,
      <<"I", "n", "t", "r", "o", "d", "u", "c", "t", "i", "o", "n">>,
      <<"R", "e", "l", "a", "t", "e", "d", " ", "W", "o", "r", "k">>,
      <<"3", ".", "1", " ", "S", "c", "a", "l", "e", "d", " ", "A", "t", "t", "e", "n",
        "t", "i", "o", "n">>,
      <<"-", " ", "i", "t", "e", "m", " ", "o", "n", "e">>,
      <<"w", "e", " ", "p", "r", "o", "p", "o", "s", "e", " ", "a", " ", "m", "o", "d",
        "e", "l">> }

\* a line of LongLen letters, and a line of OverLen letters that names an
\* institution
LongLine == Rep("x", LongLen)

OverLine == <<"g", "o", "o", "g", "l", "e">> \o Rep("x", OverLen - 6)

LongLines == {LongLine, OverLine}

Vocabulary == ShortLines \cup LongLines

\* a table caption that the title step does not take, for its first letter
LowerCaption ==
    <<"s", "e", "e", " ", "T", "a", "b", "l", "e", " ", "1", ":", " ", "r", "e", "s",
      "u", "l", "t", "s">>

\* the facts of every line a document can hold, computed once
LineFacts ==
    [raw \in Vocabulary \cup {<< >>, LowerCaption} |->
        CHOOSE f \in {FactsOf(raw, ls) : ls \in {strip(raw)}} : TRUE]

\* pdf.metadata: Title, Author, CreationDate, each None when absent
NoContainer == [Title |-> None, Author |-> None, CreationDate |-> None]

FullContainer ==
    [Title |-> <<"C", "o", "n", "t", "a", "i", "n", "e", "r", " ", "T", "i", "t", "l",
                 "e">>,
     Author |-> <<"A", "l", "i", "c", "e", " ", "S", "m", "i", "t", "h">>,
     CreationDate |-> <<"D", ":", "2", "0", "2", "3", "0", "1", "1", "5">>]

BlankAuthorContainer == [Title |-> None, Author |-> <<" ", " ">>, CreationDate |-> None]

(***************************************************************************)
(* A document is pad blank lines, one free line, gap blank lines,          *)
(* MaxContent - 1 free lines and tail blank lines; a free line is any line *)
(* of the vocabulary, the long lines only where the layout says so; when   *)
(* pad is positive the line at index 0 is the layout's first.  The         *)
(* layouts put free lines at the start of the document, on both sides of   *)
(* the title window and of the author window, at index 20, and before and  *)
(* after the ten lines a table swallows.                                   *)
(***************************************************************************)
AtStart == [pad |-> 0, gap |-> 0, tail |-> 0, long |-> TRUE,
            first |-> << >>]

ShortAtStart == [pad |-> 0, gap |-> 0, tail |-> 0, long |-> FALSE,
                 first |-> << >>]

AtTitleWindow == [pad |-> TitleWindow - 1, gap |-> 0, tail |-> 2, long |-> FALSE,
                  first |-> << >>]

AtTwenty == [pad |-> 0, gap |-> 19, tail |-> 0, long |-> FALSE,
             first |-> << >>]

AtAuthorWindow == [pad |-> 0, gap |-> AuthorWindow - 2, tail |-> 0, long |-> FALSE,
                   first |-> << >>]

AroundTable == [pad |-> TitleWindow, gap |-> TableSkip, tail |-> 0, long |-> FALSE,
                first |-> << >>]

\* the caption at index 0, a free line among the ten lines its table swallows
\* and the other free lines after them, all inside the title window
AfterCaption == [pad |-> 1, gap |-> TableSkip - 1, tail |-> 0, long |-> FALSE,
                 first |-> LowerCaption]

\* the documents: a container's metadata and a layout of lines
Inputs ==
    { [container |-> NoContainer, layout |-> AtStart],
      [container |-> NoContainer, layout |-> AtTitleWindow],
      [container |-> NoContainer, layout |-> AtTwenty],
      [container |-> NoContainer, layout |-> AtAuthorWindow],
      [container |-> NoContainer, layout |-> AroundTable],
      [container |-> NoContainer, layout |-> AfterCaption],
      [container |-> FullContainer, layout |-> ShortAtStart],
      [container |-> BlankAuthorContainer, layout |-> ShortAtStart] }

\* len(lines)
LayoutLen(l) == l.pad + l.gap + MaxContent + l.tail

FreeAt(l, idx) ==
    idx = l.pad \/ (l.pad + l.gap < idx /\ idx < l.pad + l.gap + MaxContent)

\* the lines lines[idx] may be
LinesAt(l, idx) ==
    IF FreeAt(l, idx) THEN (IF l.long THEN Vocabulary ELSE ShortLines)
    ELSE IF idx = 0 THEN {l.first}
    ELSE {<< >>}

\* year_match.group(1) of re.search(r'(\d{4})', str(date_str)), None without a match
FirstYear(date_str) ==
    LET at == {k \in 1..(Len(date_str) - 3) :
                  \A m \in k..(k + 3) : date_str[m] \in DigitSet}
    IN  IF at = {} THEN None
        ELSE SubSeq(date_str, CHOOSE k \in at : \A m \in at : k <= m,
                              (CHOOSE k \in at : \A m \in at : k <= m) + 3)

-----------------------------------------------------------------------------
(* The state                                                               *)

VARIABLES
    pc,                 \* "new", "scan" (in the loop of parse_structure), "done"
    container,          \* pdf.metadata
    layout,             \* the layout of lines
    len,                \* len(lines)
    i,                  \* the index of the next line of the loop
    line,               \* the line the last iteration read
    category,           \* the step that consumed it
    metadata,           \* self.metadata
    skip_lines,
    title_found,
    metadata_section,
    in_abstract,
    in_references,
    current_section,    \* the paragraph buffer
    result,             \* the fragments
    now,                \* str(datetime.now().year), read by generate_bibtex
    bibtex,             \* what generate_bibtex returned
    filename,           \* the argument of sanitize_filename
    base_name,          \* what sanitize_filename returned
    pdf_files,          \* main: the documents of the batch
    next_file,          \* main: the position of the loop over pdf_files
    outputs,            \* the files of the output directory
    returns             \* what the calls of main's loop returned, in order

\* the variables of the line scan
scan_vars == <<pc, container, layout, len, i, line, category, metadata, skip_lines,
               title_found, metadata_section, in_abstract, in_references,
               current_section, result>>

\* the variables of the functions around the line scan
aux_vars == <<now, bibtex, filename, base_name, pdf_files, next_file, outputs, returns>>

vars == <<scan_vars, aux_vars>>

NoEntry == [raised |-> FALSE, entry_type |-> "none", cite_key |-> << >>,
            fields |-> << >>]

\* nothing outside the line scan has run
AuxIdle ==
    /\ now = << >>
    /\ bibtex = NoEntry
    /\ filename = << >>
    /\ base_name = << >>
    /\ pdf_files = << >>
    /\ next_file = 0
    /\ outputs = {}
    /\ returns = << >>

\* PaperParser.__init__
Init ==
    /\ pc = "new"
    /\ container = NoContainer
    /\ layout = AtStart
    /\ len = 0
    /\ i = 0
    /\ line = << >>
    /\ category = "none"
    /\ metadata = [title |-> None, authors |-> << >>, year |-> None, venue |-> None,
                   abstract |-> None, keywords |-> << >>]
    /\ skip_lines = 0
    /\ title_found = FALSE
    /\ metadata_section = TRUE
    /\ in_abstract = FALSE
    /\ in_references = FALSE
    /\ current_section = << >>
    /\ result = << >>
    /\ AuxIdle

\* lines 31-44: the container's metadata is recorded
ContainerMetadata(m, c) ==
    [m EXCEPT !.title = IF c.Title # None THEN c.Title ELSE @,
              !.authors = IF c.Author # None THEN <<c.Author>> ELSE @,
              !.year = IF c.CreationDate # None /\ FirstYear(c.CreationDate) # None
                       THEN FirstYear(c.CreationDate) ELSE @]

\* extract_text_with_structure up to the loop of parse_structure
Extract ==
    /\ pc = "new"
    /\ \E in \in Inputs :
          /\ container' = in.container
          /\ layout' = in.layout
          /\ len' = LayoutLen(in.layout)
          /\ metadata' = ContainerMetadata(metadata, in.container)
    /\ pc' = "scan"
    /\ i' = 0
    /\ skip_lines' = 0
    /\ title_found' = FALSE
    /\ metadata_section' = TRUE
    /\ in_abstract' = FALSE
    /\ in_references' = FALSE
    /\ current_section' = << >>
    /\ result' = << >>
    /\ UNCHANGED <<line, category>>
    /\ UNCHANGED aux_vars

\* the variables of the loop of parse_structure
ScanState ==
    [meta |-> metadata, skip_lines |-> skip_lines, title_found |-> title_found,
     metadata_section |-> metadata_section, in_abstract |-> in_abstract,
     in_references |-> in_references, current_section |-> current_section,
     result |-> result, done |-> FALSE, cat |-> "none"]

\* one iteration of the loop of parse_structure
Step ==
    /\ pc = "scan"
    /\ i < len
    /\ \E raw \in LinesAt(layout, i) : \E f \in {LineFacts[raw]} :
       \E s \in {Iteration(ScanState, f, i, len)} :
          /\ line' = raw
          /\ category' = s.cat
          /\ metadata' = s.meta
          /\ skip_lines' = s.skip_lines
          /\ title_found' = s.title_found
          /\ metadata_section' = s.metadata_section
          /\ in_abstract' = s.in_abstract
          /\ in_references' = s.in_references
          /\ current_section' = s.current_section
          /\ result' = s.result
    /\ i' = i + 1
    /\ UNCHANGED <<pc, container, layout, len>>
    /\ UNCHANGED aux_vars

\* lines 290-294: the end of the loop
Finish ==
    /\ pc = "scan"
    /\ i = len
    /\ \E s \in {Flush(ScanState)} :
          /\ result' = s.result
          /\ current_section' = s.current_section
    /\ pc' = "done"
    /\ UNCHANGED <<container, layout, len, i, line, category, metadata, skip_lines,
                   title_found, metadata_section, in_abstract, in_references>>
    /\ UNCHANGED aux_vars

Next == Extract \/ Step \/ Finish

Spec == Init /\ [][Next]_vars

-----------------------------------------------------------------------------
(* generate_bibtex on its own: the metadata a scan can leave and the year  *)
(* of the clock are the inputs                                             *)

JaneDoe == <<"J", "a", "n", "e", " ", "D", "o", "e">>

\* more authors than an entry names
ManyAuthors == [k \in 1..(MaxBibAuthors + 1) |-> <<"D", "r", " ", UpperSeq[k], "e", "e">>]

\* a name whose last word holds a character that is neither a letter nor a digit
MaryONeil == <<"M", "a", "r", "y", " ", "O", "'", "N", "e", "i", "l">>

BibAuthors ==
    { << >>, <<JaneDoe>>, <<MaryONeil>>,
      <<<<"A", "l", "i", "c", "e", " ", "S", "m", "i", "t", "h">>,
        <<"B", "o", "b", " ", "J", "o", "n", "e", "s">>>>,
      <<<<" ", " ">>>>,
      ManyAuthors }

BibYears == {None, <<"2", "0", "2", "3">>}

BibVenues == {None, <<"G", "o", "o", "g", "l", "e", " ", "B", "r", "a", "i", "n">>}

BibTitles == {None, <<"A", " ", "T", "i", "t", "l", "e">>}

\* an abstract of more than BibAbstractMax characters that has exactly
\* BibAbstractMax once its braces are removed
BracedAbstract == <<"{">> \o Rep("a", BibAbstractMax) \o <<"}">>

BibAbstracts == {None, <<"a", " ", "{", "b", "}", " ", "c">>, OverLine, BracedAbstract}

\* str(datetime.now().year) on the days a run can happen
ClockYears == {<<"2", "0", "2", "5">>, <<"2", "0", "2", "6">>}

BibInit ==
    /\ pc = "bib_in"
    /\ container = NoContainer
    /\ layout = AtStart
    /\ len = 0
    /\ i = 0
    /\ line = << >>
    /\ category = "none"
    /\ metadata \in [title : BibTitles, authors : BibAuthors, year : BibYears,
                      venue : BibVenues, abstract : BibAbstracts, keywords : {<< >>}]
    /\ skip_lines = 0
    /\ title_found = FALSE
    /\ metadata_section = TRUE
    /\ in_abstract = FALSE
    /\ in_references = FALSE
    /\ current_section = << >>
    /\ result = << >>
    /\ now \in ClockYears
    /\ bibtex = NoEntry
    /\ filename = << >>
    /\ base_name = << >>
    /\ pdf_files = << >>
    /\ next_file = 0
    /\ outputs = {}
    /\ returns = << >>

\* bibtex_content = parser.generate_bibtex()
GenerateBibtex ==
    /\ pc = "bib_in"
    /\ bibtex' = generate_bibtex(metadata, now)
    /\ pc' = "bib_out"
    /\ UNCHANGED <<container, layout, len, i, line, category, metadata, skip_lines,
                   title_found, metadata_section, in_abstract, in_references,
                   current_section, result>>
    /\ UNCHANGED <<now, filename, base_name, pdf_files, next_file, outputs, returns>>

BibNext == GenerateBibtex

BibSpec == BibInit /\ [][BibNext]_vars

-----------------------------------------------------------------------------
(* The batch: main of parse_paper.py calls parse_research_paper for every  *)
(* document, main of parse_pdfs.py calls parse_pdf_to_markdown.  A         *)
(* document is readable or not (pdfplumber.open raises on one that is not) *)
(* and has a container's metadata and no text.                             *)

\* the largest number of documents of a batch
MaxFiles == 3

Documents ==
    { [readable |-> FALSE, container |-> NoContainer],
      [readable |-> TRUE, container |-> NoContainer],
      [readable |-> TRUE, container |-> FullContainer],
      [readable |-> TRUE, container |-> BlankAuthorContainer] }

RECURSIVE Batches(_)
Batches(n) ==
    IF n = 0 THEN {<< >>}
    ELSE Batches(n - 1) \cup {Append(b, d) : b \in Batches(n - 1), d \in Documents}

\* pdf_path.stem of the k-th document
Stem(k) == <<"p", "a", "p", "e", "r", UpperSeq[k]>>

EmptyMetadata ==
    [title |-> None, authors |-> << >>, year |-> None, venue |-> None,
     abstract |-> None, keywords |-> << >>]

\* open(path, 'w') and f.write(text): the file replaces one of the same name
WriteFile(files, name, ext, k, text) ==
    {o \in files : ~(o.name = name /\ o.ext = ext)}
       \cup {[name |-> name, ext |-> ext, by |-> k, text |-> text]}

\* lines 400-411: the two files of a document with metadata m
PaperOutputs(m, base, k, files, clock) ==
    CHOOSE r \in
      { IF entry.raised
        THEN [raised |-> TRUE, files |-> md]
        ELSE [raised |-> FALSE, files |-> WriteFile(md, base, "bib", k, BibText(entry))]
        : md \in {WriteFile(files, base, "md", k, << >>)},
          entry \in {generate_bibtex(m, clock)} } : TRUE

\* the body of the try of parse_research_paper, for the k-th document: raised
\* says that an exception left it, files are the files of the output directory
\* after it
PaperBody(doc, k, files, clock) ==
    IF ~doc.readable THEN [raised |-> TRUE, files |-> files]
    ELSE CHOOSE r \in
           { PaperOutputs(m, IF m.title # None THEN sanitize_filename(m.title)
                             ELSE Stem(k),
                          k, files, clock)
             : m \in {ContainerMetadata(EmptyMetadata, doc.container)} } : TRUE

\* parse_research_paper without its try and except
parse_research_paper_uncaught(doc, k, files, clock) ==
    CHOOSE r \in
      { [raised |-> body.raised, ret |-> ~body.raised, files |-> body.files]
        : body \in {PaperBody(doc, k, files, clock)} } : TRUE

\* parse_research_paper: "except Exception" returns False
parse_research_paper(doc, k, files, clock) ==
    CHOOSE r \in
      { [raised |-> FALSE, ret |-> ~body.raised, files |-> body.files]
        : body \in {PaperBody(doc, k, files, clock)} } : TRUE

\* parse_pdf_to_markdown of parse_pdfs.py
parse_pdf_to_markdown(doc, k, files) ==
    IF ~doc.readable THEN [raised |-> FALSE, ret |-> FALSE, files |-> files]
    ELSE [raised |-> FALSE, ret |-> TRUE,
          files |-> WriteFile(files, Stem(k), "md", k, << >>)]

BatchInit ==
    /\ pc \in {"main_paper", "main_pdfs"}
    /\ container = NoContainer
    /\ layout = AtStart
    /\ len = 0
    /\ i = 0
    /\ line = << >>
    /\ category = "none"
    /\ metadata = EmptyMetadata
    /\ skip_lines = 0
    /\ title_found = FALSE
    /\ metadata_section = TRUE
    /\ in_abstract = FALSE
    /\ in_references = FALSE
    /\ current_section = << >>
    /\ result = << >>
    /\ now \in ClockYears
    /\ bibtex = NoEntry
    /\ filename = << >>
    /\ base_name = << >>
    /\ pdf_files \in Batches(MaxFiles)
    /\ next_file = 1
    /\ outputs = {}
    /\ returns = << >>

\* one round of "for pdf_file in pdf_files" of either main: an exception that
\* leaves the call leaves main
Call(r) ==
    /\ outputs' = r.files
    /\ IF r.raised
       THEN pc' = "aborted" /\ UNCHANGED <<next_file, returns>>
       ELSE /\ returns' = Append(returns, r.ret)
            /\ next_file' = next_file + 1
            /\ pc' = pc
    /\ UNCHANGED <<container, layout, len, i, line, category, metadata, skip_lines,
                   title_found, metadata_section, in_abstract, in_references,
                   current_section, result>>
    /\ UNCHANGED <<now, bibtex, filename, base_name, pdf_files>>

\* parse_paper.py, lines 440-442
ParsePaper ==
    /\ pc = "main_paper"
    /\ next_file <= Len(pdf_files)
    /\ Call(parse_research_paper(pdf_files[next_file], next_file, outputs, now))

\* parse_pdfs.py, lines 56-61
ConvertPdf ==
    /\ pc = "main_pdfs"
    /\ next_file <= Len(pdf_files)
    /\ Call(parse_pdf_to_markdown(pdf_files[next_file], next_file, outputs))

\* the end of the loop
MainDone ==
    /\ pc \in {"main_paper", "main_pdfs"}
    /\ next_file > Len(pdf_files)
    /\ pc' = "main_done"
    /\ UNCHANGED <<container, layout, len, i, line, category, metadata, skip_lines,
                   title_found, metadata_section, in_abstract, in_references,
                   current_section, result>>
    /\ UNCHANGED aux_vars

BatchNext == ParsePaper \/ ConvertPdf \/ MainDone

BatchSpec == BatchInit /\ [][BatchNext]_vars

-----------------------------------------------------------------------------
(* sanitize_filename on its own: a name is up to MaxPieces pieces          *)

MaxPieces == 3

LongPieceLen == 60

Pieces ==
    { <<"M", "y", ":", " ">>,
      <<"P", "a", "p", "e", "r", "/", "T", "i", "t", "l", "e">>,
      <<" ", "\t", " ">>,
      <<":">>,
      Rep("x", LongPieceLen) }

RECURSIVE Names(_)
Names(n) ==
    IF n = 0 THEN {<< >>}
    ELSE Names(n - 1) \cup {a \o b : a \in Names(n - 1), b \in Pieces}

SanInit ==
    /\ pc = "san_in"
    /\ container = NoContainer
    /\ layout = AtStart
    /\ len = 0
    /\ i = 0
    /\ line = << >>
    /\ category = "none"
    /\ metadata = [title |-> None, authors |-> << >>, year |-> None, venue |-> None,
                   abstract |-> None, keywords |-> << >>]
    /\ skip_lines = 0
    /\ title_found = FALSE
    /\ metadata_section = TRUE
    /\ in_abstract = FALSE
    /\ in_references = FALSE
    /\ current_section = << >>
    /\ result = << >>
    /\ now = << >>
    /\ bibtex = NoEntry
    /\ filename \in Names(MaxPieces)
    /\ base_name = << >>
    /\ pdf_files = << >>
    /\ next_file = 0
    /\ outputs = {}
    /\ returns = << >>

\* base_name = parser.sanitize_filename(...)
Sanitize ==
    /\ pc = "san_in"
    /\ base_name' = sanitize_filename(filename)
    /\ pc' = "san_out"
    /\ UNCHANGED <<container, layout, len, i, line, category, metadata, skip_lines,
                   title_found, metadata_section, in_abstract, in_references,
                   current_section, result>>
    /\ UNCHANGED <<now, bibtex, filename, pdf_files, next_file, outputs, returns>>

SanNext == Sanitize

SanSpec == SanInit /\ [][SanNext]_vars

-----------------------------------------------------------------------------
(* Properties.  In an action formula the unprimed variables are the state  *)
(* before an iteration of the loop, i is the index of the line it reads    *)
(* and line' is that line.                                                 *)

\* the loop is about to read lines[i]
Scanning == pc = "scan" /\ i < len

\* the lines of the vocabulary the properties name
TitleLine ==
    <<"A", "t", "t", "e", "n", "t", "i", "o", "n", " ", "I", "s", " ", "A", "l", "l",
      " ", "Y", "o", "u", " ", "N", "e", "e", "d">>

AuthorLine ==
    <<"A", "l", "i", "c", "e", " ", "S", "m", "i", "t", "h", ",", " ", "B", "o", "b",
      " ", "J", "o", "n", "e", "s">>

AliceSmith == <<"A", "l", "i", "c", "e", " ", "S", "m", "i", "t", "h">>

BobJones == <<"B", "o", "b", " ", "J", "o", "n", "e", "s">>

BodyLine ==
    <<"w", "e", " ", "p", "r", "o", "p", "o", "s", "e", " ", "a", " ", "m", "o", "d",
      "e", "l">>

\* the category the priority order of the steps gives the line with facts f at
\* index idx, in the state before the iteration
ExpectedCategory(f, idx) ==
    IF skip_lines > 0 THEN "skipped"
    ELSE IF f.ls = << >> THEN "blank"
    ELSE IF ~title_found /\ idx < TitleWindow /\ f.title_like THEN "title"
    ELSE IF /\ idx < AuthorWindow /\ metadata_section /\ title_found
            /\ ~f.is_institution /\ ~f.is_content
            /\ AuthorMinLen < Len(f.ls) /\ Len(f.ls) < AuthorMaxLen THEN "author"
    ELSE IF /\ idx < AuthorWindow /\ metadata_section
            /\ f.is_institution /\ ~f.is_content
            /\ Len(f.ls) < VenueMaxLen THEN "affiliation"
    ELSE IF f.is_abstract THEN "abstract"
    ELSE IF idx + TableLookahead < len /\ Contains(TableWord, f.raw)
            /\ Contains(<<":">>, f.raw) THEN "table"
    ELSE IF f.is_equation THEN "equation"
    ELSE IF f.major_section THEN "section"
    ELSE IF f.subsection THEN "subsection"
    ELSE IF f.bullet THEN "bullet"
    ELSE "fallback"

\* the categories whose step emits a fragment for the line
EmittingCategories ==
    {"abstract", "table", "equation", "section", "subsection", "bullet"}

\* the fragments of r that come from the line at idx
OwnFragments(r, idx) == {k \in 1..Len(r) : r[k].hi >= idx}

\* the entries of the paragraph buffer b that come from the line at idx
OwnAppends(b, idx) == {k \in 1..Len(b) : b[k].src = idx}

(* C1: every line that is processed outside a table's skip window gets     *)
(* exactly one category, that of the first step in the priority order      *)
(* blank, title, author/affiliation, abstract header, table, equation,     *)
(* major section, subsection, bullet, fallback whose test it passes; no    *)
(* later step acts on it; it yields at most one fragment, of that          *)
(* category, or exactly one append to the paragraph buffer, never both.    *)
C1_OneCategoryPerLine ==
    [][ (Scanning /\ skip_lines = 0) =>
          \E f \in {LineFacts[line']} :
          \E own \in {OwnFragments(result', i)} :
          \E app \in {OwnAppends(current_section', i)} :
             /\ category' = ExpectedCategory(f, i)
             /\ category' # "skipped"
             /\ \A k \in own : result'[k].cat = category' /\ result'[k].lo = i
             /\ Cardinality(own) + Cardinality(app) <= 1
             /\ Cardinality(own) = 1 <=> category' \in EmittingCategories
             /\ Cardinality(app) = 1 <=>
                   \/ category' = "fallback"
                   \/ category' = "blank" /\ current_section # << >>
      ]_vars

\* a line that passes the test of the title step and of the subsection step was
\* consumed as the title, with no fragment
C1_Witness ==
    /\ pc = "scan" /\ category = "title" /\ LineFacts[line].subsection
    /\ result = << >> /\ current_section = << >>

(* C2: in a document of len lines, a line at index i that reaches the      *)
(* table step, contains "Table" and ":" and is followed by at least 3      *)
(* lines gets exactly one bold caption fragment; the min(10, len - i - 1)  *)
(* lines after it are swallowed with no fragment, and the first line       *)
(* after them is not swallowed.                                            *)
C2_TableWindow ==
    [][ Scanning =>
          \E f \in {LineFacts[line']} :
             /\ ( /\ ExpectedCategory(f, i) \notin
                        {"skipped", "blank", "title", "author", "affiliation", "abstract"}
                  /\ Contains(TableWord, line') /\ Contains(<<":">>, line')
                  /\ len - i - 1 >= 3 )
                => /\ category' = "table"
                   /\ Cardinality(OwnFragments(result', i)) = 1
                   /\ result'[Len(result')] =
                         Fragment("table", i,
                                  <<"\n", "*", "*">> \o strip(line')
                                     \o <<"*", "*", "\n", "\n">>)
             /\ \A k \in 1..Len(result) :
                   result[k].cat = "table" =>
                      \E t \in {result[k].lo} :
                      \E w \in {Min(TableSkip, len - result[k].lo - 1)} :
                         /\ (t < i /\ i <= t + w)
                               => /\ category' = "skipped"
                                  /\ result' = result
                                  /\ current_section' = current_section
                         /\ i = t + w + 1 => category' # "skipped"
      ]_vars

\* a caption at index 15 swallowed the ten lines after it, and the line at
\* index 26 went to the paragraph buffer
C2_Witness ==
    /\ pc = "scan" /\ i = TitleWindow + TableSkip + 2 /\ category = "fallback"
    /\ \E k \in 1..Len(result) : result[k].cat = "table" /\ result[k].lo = TitleWindow

(* C3: metadata_section is true when the scan starts, becomes false only  *)
(* at a processed line whose stripped form is "abstract" in any case, and  *)
(* once false it is never true again.                                      *)
C3_MetadataSectionEndsOnce ==
    [][ /\ (pc = "new" /\ pc' = "scan") => metadata_section'
        /\ pc = "scan" =>
              /\ ~metadata_section => ~metadata_section'
              /\ (metadata_section /\ ~metadata_section')
                    => /\ i < len /\ skip_lines = 0
                       /\ lower(strip(line')) = AbstractWord
      ]_vars

\* two "abstract" lines were processed: the first ended the metadata section,
\* the second left it ended
C3_Witness ==
    /\ pc = "scan" /\ ~metadata_section /\ Len(result) = 2
    /\ result[1].cat = "abstract" /\ result[2].cat = "abstract"

(* C4: the scan captures a title only from a line of index below 15 and    *)
(* only while metadata_section is true.                                    *)
C4_TitleOnlyInMetadataSection ==
    (pc = "scan" /\ category = "title") => (i - 1 < TitleWindow /\ metadata_section)

(* C5: the scan changes metadata.authors or metadata.venue only at a line  *)
(* of index below 40 and only while metadata_section is true.              *)
C5_AuthorsVenueWindow ==
    [][ ( /\ pc = "scan"
          /\ \/ metadata'.authors # metadata.authors
             \/ metadata'.venue # metadata.venue )
        => (i < AuthorWindow /\ metadata_section)
      ]_vars

\* the author line at index 39, the last of the window, gave both names
C5_Witness ==
    /\ pc = "scan" /\ i = AuthorWindow /\ line = AuthorLine /\ category = "author"
    /\ metadata.authors = <<AliceSmith, BobJones>>

(* C6: after the scan, a title and an author the container supplied are    *)
(* the title and the whole author list of the metadata.                    *)
C6_ContainerValuesKept ==
    pc = "done" =>
       /\ container.Title # None => metadata.title = container.Title
       /\ container.Author # None => metadata.authors = <<container.Author>>

(* C7: metadata.authors never holds the same string twice.                 *)
C7_NoDuplicateAuthors ==
    \A a, b \in 1..Len(metadata.authors) :
       a # b => metadata.authors[a] # metadata.authors[b]

\* the container's author came again in an author line and was not added twice
C7_Witness ==
    /\ container.Author = AliceSmith /\ line = AuthorLine /\ category = "author"
    /\ metadata.authors = <<AliceSmith, BobJones>>

(* C8: with no authors yet, the title found and metadata_section true, the *)
(* line "Alice Smith, Bob Jones" at index 20 makes the authors Alice       *)
(* Smith, Bob Jones, in that order, and is consumed with no fragment; the  *)
(* same line at a later index below 40 leaves them unchanged.              *)
C8_AuthorLineAtTwenty ==
    [][ ( /\ Scanning /\ skip_lines = 0 /\ line' = AuthorLine
          /\ title_found /\ metadata_section )
        => /\ (i = 20 /\ metadata.authors = << >>)
                 => /\ metadata'.authors = <<AliceSmith, BobJones>>
                    /\ category' = "author"
                    /\ result' = result
                    /\ current_section' = current_section
           /\ (20 < i /\ i < AuthorWindow
                  /\ metadata.authors = <<AliceSmith, BobJones>>)
                 => /\ metadata' = metadata
                    /\ category' = "author"
                    /\ result' = result
      ]_vars

\* the author line at index 20 gave both names and no fragment
C8_Witness ==
    /\ pc = "scan" /\ i = 21 /\ line = AuthorLine /\ category = "author"
    /\ container = NoContainer /\ title_found
    /\ metadata.authors = <<AliceSmith, BobJones>> /\ result = << >>

(* C9: during the scan the length of metadata.abstract never decreases,    *)
(* and once it is 500 or more no line changes metadata.abstract.           *)
C9_AbstractGrowsThenFrozen ==
    [][ pc = "scan" =>
           /\ Len(metadata'.abstract) >= Len(metadata.abstract)
           /\ Len(metadata.abstract) >= AbstractCap
                 => metadata'.abstract = metadata.abstract
      ]_vars

\* a body line came while the abstract held 501 characters and was not added
C9_Witness ==
    /\ pc = "scan" /\ in_abstract /\ line = BodyLine /\ category = "fallback"
    /\ metadata.abstract = OverLine

(* C10: metadata.abstract never has more than 500 characters.              *)
C10_AbstractAtMostCap == Len(metadata.abstract) <= AbstractCap

\* w is the last of the words that whitespace separates in a
IsLastWord(w, a) ==
    /\ w # << >>
    /\ \A k \in 1..Len(w) : w[k] \notin Whitespace
    /\ \E k \in 1..Len(a) : \E n \in k..Len(a) :
          /\ SubSeq(a, k, n) = w
          /\ \A m \in (n + 1)..Len(a) : a[m] \in Whitespace
          /\ k = 1 \/ a[k - 1] \in Whitespace

(* C11: an entry generate_bibtex returns is of type inproceedings when the *)
(* venue is set and article when it is not, and its cite key is the last   *)
(* word of the first author, or Unknown when there is no author, followed  *)
(* by the year of the metadata (that of the clock when the metadata has    *)
(* none); authors [Jane Doe], year 2023 and no venue give an article with  *)
(* the key Doe2023.                                                        *)
C11_EntryTypeAndCiteKey ==
    (pc = "bib_out" /\ ~bibtex.raised) =>
       \E year \in {IF metadata.year # None THEN metadata.year ELSE now} :
          /\ bibtex.entry_type = "inproceedings" <=> metadata.venue # None
          /\ bibtex.entry_type = "article" <=> metadata.venue = None
          /\ metadata.authors = << >> => bibtex.cite_key = Unknown \o year
          /\ metadata.authors # << >> =>
                \E n \in {Len(bibtex.cite_key) - Len(year)} :
                   /\ n > 0
                   /\ SubSeq(bibtex.cite_key, n + 1, Len(bibtex.cite_key)) = year
                   /\ IsLastWord(SubSeq(bibtex.cite_key, 1, n), metadata.authors[1])
          /\ ( /\ metadata.authors = <<JaneDoe>>
               /\ metadata.year = <<"2", "0", "2", "3">>
               /\ metadata.venue = None )
             => /\ bibtex.entry_type = "article"
                /\ bibtex.cite_key = <<"D", "o", "e", "2", "0", "2", "3">>

\* the entry of Jane Doe, 2023, no venue
C11_Witness ==
    /\ pc = "bib_out" /\ ~bibtex.raised
    /\ metadata.authors = <<JaneDoe>> /\ metadata.year = <<"2", "0", "2", "3">>
    /\ metadata.venue = None
    /\ bibtex.entry_type = "article"
    /\ bibtex.cite_key = <<"D", "o", "e", "2", "0", "2", "3">>

\* "My: Paper/Title"
ExampleName ==
    <<"M", "y", ":", " ", "P", "a", "p", "e", "r", "/", "T", "i", "t", "l", "e">>

\* the length of a name with the characters <>:"/\|?* gone and then every run
\* of whitespace made one character
SanitizedLen(name) ==
    LET kept == SelectSeq(name, LAMBDA c : c \notin InvalidChars)
    IN  Cardinality({k \in 1..Len(kept) :
                        \/ kept[k] \notin Whitespace
                        \/ k = 1
                        \/ kept[k - 1] \notin Whitespace})

(* C12: sanitize_filename removes the characters <>:"/\|?*, then makes     *)
(* every run of whitespace one underscore, then cuts the name to 100       *)
(* characters, in this order; "My: Paper/Title" gives "My_PaperTitle".     *)
C12_SanitizeOrder ==
    pc = "san_out" =>
       /\ \A k \in 1..Len(base_name) : base_name[k] \notin InvalidChars \cup Whitespace
       /\ Len(base_name) = Min(FilenameMax, SanitizedLen(filename))
       /\ \E letters \in {SelectSeq(filename,
                                    LAMBDA c : c \notin InvalidChars \cup Whitespace
                                                 \cup {"_"})} :
          \E kept \in {SelectSeq(base_name, LAMBDA c : c # "_")} :
             /\ Len(kept) <= Len(letters)
             /\ kept = SubSeq(letters, 1, Len(kept))
             /\ Len(base_name) < FilenameMax => kept = letters
       /\ filename = ExampleName =>
             base_name = <<"M", "y", "_", "P", "a", "p", "e", "r", "T", "i", "t", "l",
                           "e">>

\* the name of the example was sanitized
C12_Witness ==
    /\ pc = "san_out" /\ filename = ExampleName
    /\ base_name = <<"M", "y", "_", "P", "a", "p", "e", "r", "T", "i", "t", "l", "e">>

(* C12, as the specification words it: "My: Paper/Title" gives             *)
(* "My_Paper_Title".                                                       *)
C12_ExampleAsWritten ==
    (pc = "san_out" /\ filename = ExampleName) =>
       base_name = <<"M", "y", "_", "P", "a", "p", "e", "r", "_", "T", "i", "t", "l",
                     "e">>

EquationLine == <<"E", " ", "=", " ", "m", "c", "^", "2", " ", "(", "1", ")">>

\* a line of words that ends with a two-digit number in parentheses
FigureLine ==
    <<"s", "e", "e", " ", "F", "i", "g", "u", "r", "e", " ", "(", "1", "2", ")">>

\* the steps before the equation step
BeforeEquation ==
    {"skipped", "blank", "title", "author", "affiliation", "abstract", "table"}

\* the position of the "(" of a number in parentheses that ends ls, 0 without
NumberAtEnd(ls) ==
    IF Len(ls) >= 3 /\ ls[Len(ls)] = ")"
          /\ \E k \in 1..(Len(ls) - 2) :
                ls[k] = "(" /\ \A m \in (k + 1)..(Len(ls) - 1) : ls[m] \in DigitSet
    THEN CHOOSE k \in 1..(Len(ls) - 2) :
            ls[k] = "(" /\ \A m \in (k + 1)..(Len(ls) - 1) : ls[m] \in DigitSet
    ELSE 0

\* "$$\n<text>\n$$ (Eq. N)" of the line ls whose number starts at position k
Rendered(ls, k) ==
    <<"$", "$", "\n">> \o strip(SubSeq(ls, 1, k - 1)) \o <<"\n", "$", "$">>
       \o <<" ", "(", "E", "q", ".", " ">> \o SubSeq(ls, k + 1, Len(ls) - 1) \o <<")">>

(* C13: a line that reaches the equation step and ends with an integer in  *)
(* parentheses, (N), is classified as an equation; its fragment is the     *)
(* line without the (N), stripped, between "$$\n" and "\n$$", followed by  *)
(* " (Eq. N)".  "E = mc^2 (1)" gives "$$\nE = mc^2\n$$ (Eq. 1)".           *)
C13_NumberedEquation ==
    [][ /\ Scanning =>
           \E f \in {LineFacts[line']} : \E k \in {NumberAtEnd(f.ls)} :
              (ExpectedCategory(f, i) \notin BeforeEquation /\ k > 0)
              => /\ category' = "equation"
                 /\ Cardinality(OwnFragments(result', i)) = 1
                 /\ result'[Len(result')] =
                       Fragment("equation", i,
                                <<"\n">> \o Rendered(f.ls, k) \o <<"\n", "\n">>)
                 /\ line' = EquationLine =>
                       result'[Len(result')].text =
                          <<"\n", "$", "$", "\n", "E", " ", "=", " ", "m", "c", "^", "2",
                            "\n", "$", "$", " ", "(", "E", "q", ".", " ", "1", ")",
                            "\n", "\n">>
        /\ pc = "new" =>
              /\ detect_equation(FigureLine)
              /\ clean_equation(FigureLine) =
                    <<"$", "$", "\n", "s", "e", "e", " ", "F", "i", "g", "u", "r", "e",
                      "\n", "$", "$", " ", "(", "E", "q", ".", " ", "1", "2", ")">>
      ]_vars

\* "E = mc^2 (1)" was rendered
C13_Witness ==
    /\ pc = "scan" /\ category = "equation" /\ line = EquationLine
    /\ result # << >>
    /\ result[Len(result)].text =
          <<"\n", "$", "$", "\n", "E", " ", "=", " ", "m", "c", "^", "2",
            "\n", "$", "$", " ", "(", "E", "q", ".", " ", "1", ")", "\n", "\n">>

\* the processing of the document itself fails: it cannot be opened, or (for
\* parse_paper.py) its container names an author made of whitespace only, for
\* which generate_bibtex finds no last word
OwnFailure(doc, program) ==
    \/ ~doc.readable
    \/ /\ program = "main_paper"
       /\ doc.container.Author # None
       /\ \A k \in 1..Len(doc.container.Author) : doc.container.Author[k] \in Whitespace

\* the files of the output directory, after a round, that the k-th document wrote
OwnFiles(k) == {o \in outputs' : o.by = k}

(* C14: in a batch, every round of the loop over the documents returns to  *)
(* the loop, whether the document failed or not; a document that does not  *)
(* fail itself has its files written in its round and is reported True, a  *)
(* document that fails is reported False, and the loop ends only when      *)
(* every document has had its round.                                       *)
C14_BatchIsolation ==
    [][ /\ (pc \in {"main_paper", "main_pdfs"} /\ next_file <= Len(pdf_files)) =>
              /\ pc' = pc
              /\ next_file' = next_file + 1
              /\ Len(returns') = next_file
              /\ \A k \in 1..Len(returns) : returns'[k] = returns[k]
              /\ returns'[next_file] = ~OwnFailure(pdf_files[next_file], pc)
              /\ ~OwnFailure(pdf_files[next_file], pc) =>
                    {o.ext : o \in OwnFiles(next_file)} =
                       IF pc = "main_paper" THEN {"md", "bib"} ELSE {"md"}
        /\ pc' = "main_done" => Len(returns') = Len(pdf_files)
        /\ pc' # "aborted"
      ]_vars

\* a batch of three whose first and last documents failed and whose second got
\* its two files
C14_Witness ==
    /\ pc = "main_done" /\ Len(pdf_files) = MaxFiles
    /\ ~pdf_files[1].readable
    /\ pdf_files[MaxFiles].container = BlankAuthorContainer
    /\ returns[1] = FALSE /\ returns[2] = TRUE /\ returns[MaxFiles] = FALSE
    /\ {o.ext : o \in {f \in outputs : f.by = 2}} = {"md", "bib"}

(* C15: a second run on the same metadata gives the same entry type and    *)
(* the same fields whenever it happens, and the same cite key when the     *)
(* metadata has a year or the run happens in the same calendar year; when  *)
(* the metadata has no year the cite key ends with the year of the clock.  *)
C15_SameEntryUpToClockYear ==
    pc = "bib_out" =>
       /\ \A y \in ClockYears : \E other \in {generate_bibtex(metadata, y)} :
             /\ other.raised = bibtex.raised
             /\ other.entry_type = bibtex.entry_type
             /\ other.fields = bibtex.fields
             /\ (metadata.year # None \/ y = now) => other = bibtex
       /\ (metadata.year = None /\ ~bibtex.raised) =>
             /\ Len(bibtex.cite_key) > Len(now)
             /\ SubSeq(bibtex.cite_key, Len(bibtex.cite_key) - Len(now) + 1,
                       Len(bibtex.cite_key)) = now

\* an entry for metadata without a year, which a run in another year gives
\* another cite key
C15_Witness ==
    /\ pc = "bib_out" /\ metadata.year = None /\ metadata.authors = <<JaneDoe>>
    /\ bibtex.cite_key = <<"D", "o", "e">> \o now
    /\ \E y \in ClockYears : generate_bibtex(metadata, y).cite_key # bibtex.cite_key

(* C15, as the specification words it: a run on the same input gives the   *)
(* same entry whenever it happens.                                         *)
C15_SameEntryAtAnyTime ==
    pc = "bib_out" => \A y \in ClockYears : generate_bibtex(metadata, y) = bibtex

(* C16: while in_abstract is true, a processed line of the shape of a      *)
(* section header that gets as far as the abstract step sets in_abstract   *)
(* to false, so that the lines after it are not added to the abstract.     *)
C16_SectionHeaderEndsAbstract ==
    [][ (Scanning /\ skip_lines = 0 /\ in_abstract) =>
           \E f \in {LineFacts[line']} :
              ( /\ f.section_shape
                /\ ExpectedCategory(f, i) \notin
                      {"blank", "title", "author", "affiliation", "abstract"} )
              => ~in_abstract'
      ]_vars

\* the classifications the specification says flush the paragraph buffer
FlushingCategories ==
    {"title", "author", "affiliation", "abstract", "table", "equation", "section",
     "subsection", "bullet"}

(* C17: right after a line is classified as title, author or affiliation,  *)
(* abstract header, table caption, equation, major section, subsection or  *)
(* bullet the paragraph buffer is empty, and it is empty after the last    *)
(* line.                                                                   *)
C17_BufferFlushed ==
    /\ (pc = "scan" /\ category \in FlushingCategories) => current_section = << >>
    /\ pc = "done" => current_section = << >>

(* C18: the fragments are in the order of the lines they come from: every  *)
(* fragment comes from lines after those of the fragment before it, the    *)
(* paragraph buffer holds its lines in their order, and all of them come   *)
(* after the lines of every fragment; so text of line j never stands       *)
(* after text of a line k > j in the output, also when it waited in the    *)
(* buffer while blank, title, author, affiliation or skipped lines passed. *)
C18_SourceOrder ==
    /\ \A k \in 1..Len(result) : result[k].lo <= result[k].hi
    /\ \A k \in 1..(Len(result) - 1) : result[k].hi < result[k + 1].lo
    /\ \A k \in 1..(Len(current_section) - 1) :
          current_section[k].src < current_section[k + 1].src
    /\ \A k \in 1..Len(result) : \A m \in 1..Len(current_section) :
          result[k].hi < current_section[m].src

\* a paragraph of line 0 that waited in the buffer while the title of line 1
\* passed, and was emitted before the abstract header of line 2
C18_Witness ==
    /\ pc = "scan" /\ title_found /\ Len(result) = 2
    /\ result[1].cat = "paragraph" /\ result[1].lo = 0
    /\ result[2].cat = "abstract" /\ result[2].lo = 2

(* C19: a line read while skip_lines > 0 is dropped: skip_lines goes down  *)
(* by one and the fragments, the paragraph buffer, the metadata,           *)
(* title_found, metadata_section, in_abstract and in_references stay as    *)
(* they are, whatever the line holds; skip_lines is always within 0..10.   *)
C19_SkippedLineDropped ==
    [][ /\ (Scanning /\ skip_lines > 0) =>
              /\ skip_lines' = skip_lines - 1
              /\ category' = "skipped"
              /\ UNCHANGED <<result, current_section, metadata, title_found,
                             metadata_section, in_abstract, in_references>>
        /\ skip_lines' \in 0..TableSkip
      ]_vars

\* an "Abstract" line inside the window of a table was dropped and did not end
\* the metadata section
C19_Witness ==
    /\ pc = "scan" /\ category = "skipped" /\ lower(strip(line)) = AbstractWord
    /\ metadata_section /\ ~in_abstract /\ skip_lines > 0

TableLine ==
    <<"T", "a", "b", "l", "e", " ", "1", ":", " ", "R", "e", "s", "u", "l", "t", "s">>

\* whether a line of the inputs holds "Table" and ":"
IsCaption ==
    [l \in DOMAIN LineFacts |-> Contains(TableWord, l) /\ Contains(<<":">>, l)]

\* the line with facts f at index idx gets as far as the table step and holds
\* "Table" and ":"
CaptionAtTableStep(f, idx) ==
    /\ IsCaption[f.raw]
    /\ ExpectedCategory(f, idx) \notin
          {"skipped", "blank", "title", "author", "affiliation", "abstract"}

(* C20: a line that reaches the table step and holds "Table" and ":" is    *)
(* classified as a table exactly when at least two lines follow it; then   *)
(* the paragraph buffer is flushed and a bold caption fragment is emitted. *)
(* On the last line and on the line before the last it is not a table.     *)
C20_TableNeedsTwoLinesAfter ==
    [][ Scanning =>
           \E f \in {LineFacts[line']} :
              CaptionAtTableStep(f, i) =>
                 /\ category' = "table" <=> i + TableLookahead < len
                 /\ category' = "table" =>
                       /\ current_section' = << >>
                       /\ result'[Len(result')] =
                             Fragment("table", i,
                                      <<"\n", "*", "*">> \o f.ls
                                         \o <<"*", "*", "\n", "\n">>)
      ]_vars

\* a caption on the line before the last reached the table step and went to the
\* paragraph buffer
C20_Witness ==
    /\ pc = "scan" /\ i = len - 1 /\ line = TableLine /\ category = "fallback"
    /\ current_section # << >>
    /\ current_section[Len(current_section)].src = len - 2

(* C20, as the specification words it: a line that reaches the table step  *)
(* and holds "Table" and ":" is classified as a table at any position.     *)
C20_TableAtAnyPosition ==
    [][ Scanning =>
           \E f \in {LineFacts[line']} :
              CaptionAtTableStep(f, i) => category' = "table"
      ]_vars

Alphanumeric == UpperSet \cup LowerSet \cup DigitSet

(* C21: the cite key of an entry generate_bibtex returns holds letters and *)
(* digits only, whatever the authors and the year.                         *)
C21_CiteKeyAlphanumeric ==
    (pc = "bib_out" /\ ~bibtex.raised) =>
        \A k \in 1..Len(bibtex.cite_key) : bibtex.cite_key[k] \in Alphanumeric

AbstractName == <<"a", "b", "s", "t", "r", "a", "c", "t">>

\* the positions of the abstract field among the fields of an entry
AbstractFields(entry) ==
    {k \in 1..Len(entry.fields) : entry.fields[k][1] = AbstractName}

Unbraced(s) == SelectSeq(s, LAMBDA c : c \notin {"{", "}"})

(* C22: the abstract field of an entry holds no brace and at most 500      *)
(* characters: the abstract without its braces when that has at most 500   *)
(* characters, else its first 497 characters followed by "..."; there is   *)
(* no abstract field when the abstract is unset, and one otherwise.        *)
C22_AbstractField ==
    (pc = "bib_out" /\ ~bibtex.raised) =>
        \E at \in {AbstractFields(bibtex)} :
           IF metadata.abstract = None THEN at = {}
           ELSE /\ Cardinality(at) = 1
                /\ \E k \in at : \E v \in {bibtex.fields[k][2]} :
                   \E plain \in {Unbraced(metadata.abstract)} :
                      /\ \A j \in 1..Len(v) : v[j] \notin {"{", "}"}
                      /\ Len(v) <= BibAbstractMax
                      /\ IF Len(plain) > BibAbstractMax
                         THEN /\ Len(v) = BibAbstractKeep + 3
                              /\ \A j \in 1..BibAbstractKeep : v[j] = plain[j]
                              /\ \A j \in 1..3 : v[BibAbstractKeep + j] = "."
                         ELSE v = plain

\* an abstract of more than 500 characters without braces was cut to 497 and "..."
C22_Witness ==
    /\ pc = "bib_out" /\ ~bibtex.raised
    /\ Len(Unbraced(metadata.abstract)) > BibAbstractMax
    /\ \E k \in AbstractFields(bibtex) :
          /\ Len(bibtex.fields[k][2]) = BibAbstractMax
          /\ bibtex.fields[k][2][BibAbstractMax] = "."

(* C23: title_found is false when the scan starts and never goes back to  *)
(* false.  The title step takes a line exactly when title_found is false,  *)
(* the index is below 15, the line satisfies the title predicate and the   *)
(* line is not one of those a table swallows; it then sets title_found,    *)
(* stores the line as the title only when the title is unset, and emits    *)
(* nothing.  No other line changes title_found or the title, so at most    *)
(* one line of a document is consumed as the title.                        *)
C23_TitleFoundOnce ==
    [][ /\ pc = "new" => ~title_found'
        /\ pc = "scan" => (title_found => title_found')
        /\ Scanning =>
              \E f \in {LineFacts[line']} :
                 /\ category' = "title" <=>
                       /\ ~title_found /\ i < TitleWindow /\ f.title_like
                       /\ skip_lines = 0
                 /\ category' = "title" =>
                       /\ title_found'
                       /\ metadata' = [metadata EXCEPT
                                          !.title = IF @ = None THEN f.ls ELSE @]
                       /\ UNCHANGED <<result, current_section>>
                 /\ category' # "title" =>
                       /\ title_found' = title_found
                       /\ metadata'.title = metadata.title
      ]_vars

\* a line that satisfies the title predicate, at an index below 15 and with
\* title_found false, was swallowed by a table and title_found is still false
C23_Witness ==
    /\ pc = "scan" /\ category = "skipped" /\ line = TitleLine
    /\ i - 1 < TitleWindow /\ ~title_found /\ metadata.title = None

(* C23, as the specification words it: the title step takes the first line *)
(* of index below 15 that satisfies the title predicate, so a line is      *)
(* taken exactly when title_found is false, the index is below 15 and the  *)
(* line satisfies the predicate.                                           *)
C23_FirstTitleLikeLineTaken ==
    [][ Scanning =>
           \E f \in {LineFacts[line']} :
              category' = "title" <=>
                 (~title_found /\ i < TitleWindow /\ f.title_like)
      ]_vars

(* C24: generate_bibtex never raises, so in parse_research_paper a         *)
(* document whose markdown file has been written has its bibliography file *)
(* written too and is reported True.                                       *)
C24_MarkdownThenBibliography ==
    [][ (pc = "main_paper" /\ next_file <= Len(pdf_files)) =>
           ((\E o \in OwnFiles(next_file) : o.ext = "md") =>
               /\ \E o \in OwnFiles(next_file) : o.ext = "bib"
               /\ Len(returns') = next_file
               /\ returns'[next_file] = TRUE)
      ]_vars

=============================================================================
